---- MODULE Spec2Model ----
(***************************************************************************)
(* TraefikEtcdProxy (jupyterhub_traefik_proxy/etcd.py): the route table    *)
(* kept in etcd.  A text string is the sequence of its code points and a   *)
(* byte string the sequence of its bytes; the keys and values of the       *)
(* keyspace are ASCII, where a string and its utf-8 bytes are the same     *)
(* sequence of numbers.                                                    *)
(***************************************************************************)
EXTENDS Integers, Sequences, FiniteSets, TLC

VARIABLES
    store,    \* the etcd keyspace: a function from the keys present to their values
    pending,  \* pending[f]: how many _kv_atomic_delete_route_parts calls are suspended
              \* between their get and their transaction with the locals f
    ret,      \* what the operation that completed last returned, with its arguments
    added,    \* history: routespec -> target of the routes added and not deleted since
    listed,   \* the entries of the listing made last that have not been decoded yet
    queue,    \* the work queue of self.executor: the calls submitted and not yet started
    running,  \* the calls the worker threads of self.executor are executing
    dispatched,  \* history: how many calls have been submitted to self.executor
    started,  \* history: the tickets of the calls started, in the order they started
    stopped,  \* the proxy has been torn down
    closes,   \* how many times kv_client.close() has been called
    used_closed  \* history: a call was started on kv_client after its close()

\* the executor and the client handle of one proxy
procvars == <<queue, running, dispatched, started, stopped, closes, used_closed>>

vars == <<store, pending, ret, added, listed, queue, running, dispatched, started, stopped,
          closes, used_closed>>

(***************************** bounds and inputs ***************************)

\* Most deleteRoute calls (of the coroutines of one proxy, or of the proxies of
\* several hubs on the same etcd) that are between their two awaits at once.
MaxPending == 2

\* Longest raw key tail handed to _kv_get_route_parts in SpecDecode.
MaxTail == 3

\* "/a/", "/b_1/"
RouteSpecs == { <<47, 97, 47>>, <<47, 98, 95, 49, 47>> }

\* "h:1", "h:2"
Targets == { <<104, 58, 49>>, <<104, 58, 50>> }

\* "d1", "d2"
Datas == { <<100, 49>>, <<100, 50>> }

\* Python's None; no string holds a negative code point.
None == << -1 >>

(******************************* strings **********************************)

\* "/"
kv_separator == <<47>>

\* "jupyterhub"
kv_jupyterhub_prefix == <<106, 117, 112, 121, 116, 101, 114, 104, 117, 98>>

\* "traefik"
kv_traefik_prefix == <<116, 114, 97, 101, 102, 105, 107>>

RECURSIVE Join(_, _)
\* sep.join(parts)
Join(sep, parts) ==
    IF parts = <<>> THEN <<>>
    ELSE IF Len(parts) = 1 THEN parts[1]
    ELSE parts[1] \o sep \o Join(sep, Tail(parts))

\* s.find(old), 1-based; 0 when old does not occur in s
Find(s, old) ==
    LET hits == { i \in 1..(Len(s) - Len(old) + 1) :
                    SubSeq(s, i, i + Len(old) - 1) = old }
    IN IF hits = {} THEN 0 ELSE CHOOSE i \in hits : \A j \in hits : i <= j

\* s.replace(old, "", 1): the first occurrence of old, wherever it is, removed
ReplaceFirst(s, old) ==
    LET i == Find(s, old)
    IN IF i = 0 THEN s
       ELSE SubSeq(s, 1, i - 1) \o SubSeq(s, i + Len(old), Len(s))

StartsWith(s, p) == Len(s) >= Len(p) /\ SubSeq(s, 1, Len(p)) = p

(******************************* escapism *********************************)

IsDigit(c) == c \in 48..57
IsAlpha(c) == c \in 65..90 \/ c \in 97..122

\* escapism.SAFE: ascii letters and digits
IsSafe(c) == IsAlpha(c) \/ IsDigit(c)

\* one digit of '%X'
HexDigit(n) == IF n < 10 THEN 48 + n ELSE 55 + n

\* '%X' % byte: upper case, not padded
HexOf(byte) ==
    IF byte < 16 THEN <<HexDigit(byte)>>
    ELSE <<HexDigit(byte \div 16), HexDigit(byte % 16)>>

\* c.encode('utf8') of one character c that is no surrogate
Utf8Char(c) ==
    IF c < 128 THEN <<c>>
    ELSE IF c < 2048 THEN <<192 + (c \div 64), 128 + (c % 64)>>
    ELSE IF c < 65536
         THEN <<224 + (c \div 4096), 128 + ((c \div 64) % 64), 128 + (c % 64)>>
         ELSE <<240 + (c \div 262144), 128 + ((c \div 4096) % 64),
                128 + ((c \div 64) % 64), 128 + (c % 64)>>

RECURSIVE Utf8Encode(_)
\* s.encode('utf8')
Utf8Encode(s) == IF s = <<>> THEN <<>> ELSE Utf8Char(s[1]) \o Utf8Encode(Tail(s))

\* a continuation byte of utf-8
IsCont(b) == b \in 128..191

\* how many bytes the well-formed utf-8 sequence at the head of b takes; 0 when
\* b does not begin with one (a stray continuation byte, an overlong form, a
\* surrogate, a code point above 0x10FFFF, a sequence cut short)
Utf8Width(b) ==
    IF b[1] < 128 THEN 1
    ELSE IF b[1] \in 194..223
         THEN IF Len(b) >= 2 /\ IsCont(b[2]) THEN 2 ELSE 0
    ELSE IF b[1] \in 224..239
         THEN IF /\ Len(b) >= 3 /\ IsCont(b[2]) /\ IsCont(b[3])
                 /\ (b[1] = 224 => b[2] >= 160)
                 /\ (b[1] = 237 => b[2] <= 159)
              THEN 3 ELSE 0
    ELSE IF b[1] \in 240..244
         THEN IF /\ Len(b) >= 4 /\ IsCont(b[2]) /\ IsCont(b[3]) /\ IsCont(b[4])
                 /\ (b[1] = 240 => b[2] >= 144)
                 /\ (b[1] = 244 => b[2] <= 143)
              THEN 4 ELSE 0
    ELSE 0

\* the code point of the well-formed sequence of w bytes at the head of b
Utf8Point(b, w) ==
    IF w = 1 THEN b[1]
    ELSE IF w = 2 THEN (b[1] - 192) * 64 + (b[2] - 128)
    ELSE IF w = 3 THEN (b[1] - 224) * 4096 + (b[2] - 128) * 64 + (b[3] - 128)
    ELSE (b[1] - 240) * 262144 + (b[2] - 128) * 4096 + (b[3] - 128) * 64 + (b[4] - 128)

RECURSIVE Utf8Decode(_)
\* b.decode('utf8'): the text, or None when it raises UnicodeDecodeError
Utf8Decode(b) ==
    IF b = <<>> THEN <<>>
    ELSE LET w == Utf8Width(b)
         IN IF w = 0 THEN None
            ELSE LET rest == Utf8Decode(SubSeq(b, w + 1, Len(b)))
                 IN IF rest = None THEN None ELSE <<Utf8Point(b, w)>> \o rest

RECURSIVE EscapeBytes(_)
\* '_' and '%X' of each byte in turn
EscapeBytes(b) ==
    IF b = <<>> THEN <<>> ELSE <<95>> \o HexOf(b[1]) \o EscapeBytes(Tail(b))

\* escapism._escape_char with escape_char '_': every byte of c.encode('utf8')
EscapeChar(c) == EscapeBytes(Utf8Char(c))

RECURSIVE escape(_)
\* escapism.escape(to_escape)
escape(s) ==
    IF s = <<>> THEN <<>>
    ELSE (IF IsSafe(s[1]) THEN <<s[1]>> ELSE EscapeChar(s[1])) \o escape(Tail(s))

IsHex(c) == IsDigit(c) \/ c \in 65..70 \/ c \in 97..102

\* int(h, 16) of one hex digit
HexVal(c) == IF IsDigit(c) THEN c - 48 ELSE IF c >= 97 THEN c - 87 ELSE c - 55

\* the bytes pattern _([a-z0-9]{2}), IGNORECASE, matches at the head of s
EscapeMatch(s) == Len(s) >= 3 /\ s[1] = 95 /\ IsSafe(s[2]) /\ IsSafe(s[3])

RECURSIVE UnescapeBytes(_)
\* escape_pat.subn(_unescape_char, escaped.encode('utf8')): left to right,
\* matches do not overlap
UnescapeBytes(s) ==
    IF s = <<>> THEN <<>>
    ELSE IF EscapeMatch(s)
         THEN <<16 * HexVal(s[2]) + HexVal(s[3])>> \o UnescapeBytes(SubSeq(s, 4, Len(s)))
         ELSE <<s[1]>> \o UnescapeBytes(Tail(s))

RECURSIVE UnescapeRaises(_)
\* int(m.group(1), 16) raises ValueError on a match that is not two hex digits
UnescapeRaises(s) ==
    IF s = <<>> THEN FALSE
    ELSE IF EscapeMatch(s)
         THEN ~(IsHex(s[2]) /\ IsHex(s[3])) \/ UnescapeRaises(SubSeq(s, 4, Len(s)))
         ELSE UnescapeRaises(Tail(s))

\* escapism.unescape(escaped): the escapes of escaped.encode('utf8') replaced
\* by their bytes and the result decoded as utf-8; None when it raises (a
\* match that is not hex, bytes that are no utf-8)
unescape(s) ==
    LET b == Utf8Encode(s)
    IN IF UnescapeRaises(b) THEN None ELSE Utf8Decode(UnescapeBytes(b))

(************************** the caller's key paths ************************)

\* "routes", "targets"
ROUTES == <<114, 111, 117, 116, 101, 115>>
TARGETS == <<116, 97, 114, 103, 101, 116, 115>>

\* the key the caller passes as jupyterhub_routespec
routeKey(routespec) ==
    Join(kv_separator, <<kv_jupyterhub_prefix, ROUTES, escape(routespec)>>)

\* "service_" + escape(routespec)
ServiceAlias(routespec) ==
    <<115, 101, 114, 118, 105, 99, 101, 95>> \o escape(routespec)

\* the route_keys the caller passes for a routespec: three key paths under the
\* traefik prefix (.../services/<alias>/url, .../routers/<alias>/service,
\* .../routers/<alias>/rule) and the service alias
RouteKeysFor(routespec) ==
    LET alias == escape(routespec)
        services == <<115, 101, 114, 118, 105, 99, 101, 115>>
        routers == <<114, 111, 117, 116, 101, 114, 115>>
    IN [ service_alias |-> ServiceAlias(routespec),
         service_url_path |->
            Join(kv_separator, <<kv_traefik_prefix, services, alias, <<117, 114, 108>> >>),
         router_service_path |->
            Join(kv_separator, <<kv_traefik_prefix, routers, alias,
                                 <<115, 101, 114, 118, 105, 99, 101>> >>),
         router_rule_path |->
            Join(kv_separator, <<kv_traefik_prefix, routers, alias,
                                 <<114, 117, 108, 101>> >>) ]

\* the rule the caller passes for a routespec: "P(" routespec ")"
RuleFor(routespec) == <<80, 40>> \o routespec \o <<41>>

(****************************** the etcd client ***************************)

\* kv_client.transactions.put / .delete
Put(key, value) == [op |-> "put", key |-> key, value |-> value]
Delete(key) == [op |-> "delete", key |-> key]

ApplyOp(s, a) ==
    IF a.op = "put"
    THEN [k \in DOMAIN s \cup {a.key} |-> IF k = a.key THEN a.value ELSE s[k]]
    ELSE [k \in DOMAIN s \ {a.key} |-> s[k]]

RECURSIVE ApplyOps(_, _)
ApplyOps(s, ops) ==
    IF ops = <<>> THEN s ELSE ApplyOps(ApplyOp(s, Head(ops)), Tail(ops))

\* the raw response of a transaction: its `succeeded` bit, as a byte
TxnResponse(succeeded) == <<IF succeeded THEN 1 ELSE 0>>

\* as etcd_transaction, with failure=success_actions: the puts and deletes are
\* applied whatever the verdict
etcd_transaction_failure_applies(s, succeeded, success_actions) ==
    [ status |-> succeeded,
      response |-> TxnResponse(succeeded),
      store |-> ApplyOps(s, success_actions),
      txns |-> 1 ]

\* kv_client.transaction(compare=[], success=..., failure=[]): etcd applies
\* the success list when the transaction succeeds and the failure list
\* otherwise, as one atomic step; `succeeded` is the backend's verdict.
\* The result carries the new keyspace and the count of transactions sent.
etcd_transaction(s, succeeded, success_actions) ==
    LET failure == <<>>
    IN [ status |-> succeeded,
         response |-> TxnResponse(succeeded),
         store |-> ApplyOps(s, IF succeeded THEN success_actions ELSE failure),
         txns |-> 1 ]

\* kv_client.get(key)[0]
etcd_get(s, key) == IF key \in DOMAIN s THEN s[key] ELSE None

\* kv_client.get_prefix(prefix): the (value, metadata) pairs of the keys under prefix
etcd_get_prefix(s, prefix) ==
    { <<s[k], [key |-> k]>> : k \in { x \in DOMAIN s : StartsWith(x, prefix) } }

(****************************** the operations ****************************)

\* the key of a target's data, as both route operations compute it
targetKey(target) ==
    Join(kv_separator, <<kv_jupyterhub_prefix, TARGETS, escape(target)>>)

\* The arguments the caller derives from a routespec, and the data key of
\* each target, tabulated over the inputs of the model.
jupyterhub_routespec == [r \in RouteSpecs |-> routeKey(r)]
route_keys == [r \in RouteSpecs |-> RouteKeysFor(r)]
rule == [r \in RouteSpecs |-> RuleFor(r)]
jupyterhub_target == [t \in Targets |-> targetKey(t)]

\* as add_route_success, with the data put under the target as it is, not escaped
add_route_success_raw_target(routespec, target, data) ==
    << Put(jupyterhub_routespec[routespec], target),
       Put(Join(kv_separator, <<kv_jupyterhub_prefix, TARGETS, target>>), data),
       Put(route_keys[routespec].service_url_path, target),
       Put(route_keys[routespec].router_service_path, route_keys[routespec].service_alias),
       Put(route_keys[routespec].router_rule_path, rule[routespec]) >>

\* as add_route_success, without the put of the service url
add_route_success_no_service_url(routespec, target, data) ==
    << Put(jupyterhub_routespec[routespec], target),
       Put(jupyterhub_target[target], data),
       Put(route_keys[routespec].router_service_path, route_keys[routespec].service_alias),
       Put(route_keys[routespec].router_rule_path, rule[routespec]) >>

\* as add_route_success, the rule put under the rule path of "/a/" whatever
\* the routespec
add_route_success_one_rule_path(routespec, target, data) ==
    << Put(jupyterhub_routespec[routespec], target),
       Put(jupyterhub_target[target], data),
       Put(route_keys[routespec].service_url_path, target),
       Put(route_keys[routespec].router_service_path, route_keys[routespec].service_alias),
       Put(route_keys[<<47, 97, 47>>].router_rule_path, rule[routespec]) >>

\* the five puts of _kv_atomic_add_route_parts
add_route_success(routespec, target, data) ==
    << Put(jupyterhub_routespec[routespec], target),
       Put(jupyterhub_target[target], data),
       Put(route_keys[routespec].service_url_path, target),
       Put(route_keys[routespec].router_service_path, route_keys[routespec].service_alias),
       Put(route_keys[routespec].router_rule_path, rule[routespec]) >>

\* as kv_atomic_add_route_parts, with a delete of the data key of the target
\* the routespec held before, also when that is the target being added
kv_atomic_add_route_parts_cleanup(s, succeeded, routespec, target, data) ==
    LET old == etcd_get(s, jupyterhub_routespec[routespec])
    IN etcd_transaction(s, succeeded,
           add_route_success(routespec, target, data)
              \o (IF old = None THEN <<>> ELSE <<Delete(jupyterhub_target[old])>>))

\* _kv_atomic_add_route_parts on the keyspace s
kv_atomic_add_route_parts(s, succeeded, routespec, target, data) ==
    etcd_transaction(s, succeeded, add_route_success(routespec, target, data))

\* as delete_route_success, without the delete of the routespec key
delete_route_success_keeps_route(routespec, value) ==
    << Delete(jupyterhub_target[value]),
       Delete(route_keys[routespec].service_url_path),
       Delete(route_keys[routespec].router_service_path),
       Delete(route_keys[routespec].router_rule_path) >>

\* as delete_route_success, without the delete of the router's rule
delete_route_success_keeps_rule(routespec, value) ==
    << Delete(jupyterhub_routespec[routespec]),
       Delete(jupyterhub_target[value]),
       Delete(route_keys[routespec].service_url_path),
       Delete(route_keys[routespec].router_service_path) >>

\* the five deletes of _kv_atomic_delete_route_parts; value is the target read
delete_route_success(routespec, value) ==
    << Delete(jupyterhub_routespec[routespec]),
       Delete(jupyterhub_target[value]),
       Delete(route_keys[routespec].service_url_path),
       Delete(route_keys[routespec].router_service_path),
       Delete(route_keys[routespec].router_rule_path) >>

\* the locals of a suspended _kv_atomic_delete_route_parts
DeleteFrames == [routespec : RouteSpecs, value : Targets]

RECURSIVE SumOver(_, _)
SumOver(f, S) ==
    IF S = {} THEN 0
    ELSE LET x == CHOOSE y \in S : TRUE IN f[x] + SumOver(f, S \ {x})

\* the number of deleteRoute calls in flight
InFlight == SumOver(pending, DeleteFrames)

\* a proxy just constructed: an idle executor, an open client
ProcInit ==
    /\ queue = <<>>
    /\ running = {}
    /\ dispatched = 0
    /\ started = <<>>
    /\ stopped = FALSE
    /\ closes = 0
    /\ used_closed = FALSE

Init ==
    /\ store = <<>>
    /\ pending = [f \in DeleteFrames |-> 0]
    /\ ret = [op |-> "none"]
    /\ added = <<>>
    /\ listed = {}
    /\ ProcInit

\* history: the operation that completed last was this very addRoute, and succeeded
SameAdd(routespec, target, data) ==
    /\ ret.op = "add_route"
    /\ ret.status
    /\ ret.routespec = routespec /\ ret.target = target /\ ret.data = data

\* await _kv_atomic_add_route_parts(jupyterhub_routespec, target, data, route_keys, rule)
AddRoute(routespec, target, data) ==
    /\ \E succeeded \in BOOLEAN :
         LET r == kv_atomic_add_route_parts(store, succeeded, routespec, target, data)
         IN /\ store' = r.store
            /\ ret' = [op |-> "add_route", routespec |-> routespec, target |-> target,
                       data |-> data, status |-> r.status, response |-> r.response,
                       txns |-> r.txns, repeat |-> SameAdd(routespec, target, data)]
            /\ added' = IF r.status
                        THEN [x \in DOMAIN added \cup {routespec} |->
                                 IF x = routespec THEN target ELSE added[x]]
                        ELSE added
    /\ UNCHANGED pending
    /\ UNCHANGED <<listed, procvars>>

\* as DeleteRouteGet, without the early return: an absent routespec key still
\* sends the deletes of the routespec key and of the three descriptor keys
DeleteRouteGetNoEarlyReturn(routespec) ==
    /\ LET value == etcd_get(store, jupyterhub_routespec[routespec])
       IN IF value = None
          THEN LET r == etcd_transaction(store, TRUE,
                            << Delete(jupyterhub_routespec[routespec]),
                               Delete(route_keys[routespec].service_url_path),
                               Delete(route_keys[routespec].router_service_path),
                               Delete(route_keys[routespec].router_rule_path) >>)
               IN /\ ret' = [op |-> "delete_route", routespec |-> routespec,
                             status |-> r.status, response |-> r.response,
                             txns |-> r.txns]
                  /\ store' = r.store
                  /\ UNCHANGED pending
          ELSE /\ InFlight < MaxPending
               /\ pending' = [pending EXCEPT
                                 ![[routespec |-> routespec, value |-> value]] = @ + 1]
               /\ UNCHANGED <<ret, store>>
    /\ UNCHANGED added
    /\ UNCHANGED <<listed, procvars>>

\* _kv_atomic_delete_route_parts up to the result of its first await, the read
\* of the routespec key.  An absent key ends the call with (True, None).
DeleteRouteGet(routespec) ==
    /\ LET value == etcd_get(store, jupyterhub_routespec[routespec])
       IN IF value = None
          THEN /\ ret' = [op |-> "delete_route", routespec |-> routespec,
                          status |-> TRUE, response |-> None, txns |-> 0]
               /\ UNCHANGED pending
          ELSE /\ InFlight < MaxPending
               /\ pending' = [pending EXCEPT
                                 ![[routespec |-> routespec, value |-> value]] = @ + 1]
               /\ UNCHANGED ret
    /\ UNCHANGED <<store, added>>
    /\ UNCHANGED <<listed, procvars>>

\* the rest of _kv_atomic_delete_route_parts: the transaction of five deletes
DeleteRouteTxn(f) ==
    /\ pending[f] > 0
    /\ \E succeeded \in BOOLEAN :
         LET r == etcd_transaction(store, succeeded,
                                   delete_route_success(f.routespec, f.value))
         IN /\ store' = r.store
            /\ ret' = [op |-> "delete_route", routespec |-> f.routespec,
                       status |-> r.status, response |-> r.response, txns |-> r.txns]
            /\ added' = IF r.status
                        THEN [x \in DOMAIN added \ {f.routespec} |-> added[x]]
                        ELSE added
    /\ pending' = [pending EXCEPT ![f] = @ - 1]
    /\ UNCHANGED <<listed, procvars>>

\* _kv_get_target(jupyterhub_routespec); the stored bytes decode to the same text
kv_get_target(s, key) == etcd_get(s, key)

\* _kv_get_data(target), target being the key of the target's data
kv_get_data(s, target) == etcd_get(s, target)

GetTarget(routespec) ==
    /\ ret' = [op |-> "get_target", routespec |-> routespec,
               result |-> kv_get_target(store, jupyterhub_routespec[routespec])]
    /\ UNCHANGED <<store, pending, added>>
    /\ UNCHANGED <<listed, procvars>>

GetData(target) ==
    /\ ret' = [op |-> "get_data", target |-> target,
               result |-> kv_get_data(store, jupyterhub_target[target])]
    /\ UNCHANGED <<store, pending, added>>
    /\ UNCHANGED <<listed, procvars>>

\* sep.join([kv_jupyterhub_prefix, "routes" + sep])
route_prefix == Join(kv_separator, <<kv_jupyterhub_prefix, ROUTES \o kv_separator>>)

\* sep.join([kv_jupyterhub_prefix, "targets"])
target_prefix == Join(kv_separator, <<kv_jupyterhub_prefix, TARGETS>>)

\* _kv_get_jupyterhub_prefixed_entries
kv_get_jupyterhub_prefixed_entries(s) == etcd_get_prefix(s, route_prefix)

\* as kv_get_route_parts, the routespec left escaped
kv_get_route_parts_no_unescape(s, kv_entry) ==
    LET key == kv_entry[2].key
        value == kv_entry[1]
        routespec == ReplaceFirst(key, route_prefix)
        etcd_target == Join(kv_separator, <<target_prefix, escape(value)>>)
        target == unescape(ReplaceFirst(etcd_target, target_prefix \o kv_separator))
    IN IF routespec = None \/ target = None
       THEN [raised |-> TRUE, error |-> "ValueError"]
       ELSE [raised |-> FALSE, routespec |-> routespec, target |-> target,
             data |-> kv_get_data(s, etcd_target)]

\* _kv_get_route_parts(kv_entry): kv_entry[1] is the value, kv_entry[2] the
\* metadata holding the key.  Either unescape may raise.
kv_get_route_parts(s, kv_entry) ==
    LET key == kv_entry[2].key
        value == kv_entry[1]
        routespec == unescape(ReplaceFirst(key, route_prefix))
        etcd_target == Join(kv_separator, <<target_prefix, escape(value)>>)
        target == unescape(ReplaceFirst(etcd_target, target_prefix \o kv_separator))
    IN IF routespec = None \/ target = None
       THEN [raised |-> TRUE, error |-> "ValueError"]
       ELSE [raised |-> FALSE, routespec |-> routespec, target |-> target,
             data |-> kv_get_data(s, etcd_target)]

\* listRoutes: the snapshot of the entries under the routes prefix, which the
\* caller keeps to decode them one by one
ListRoutes ==
    /\ ret' = [op |-> "list", routes |-> kv_get_jupyterhub_prefixed_entries(store)]
    /\ listed' = kv_get_jupyterhub_prefixed_entries(store)
    /\ UNCHANGED <<store, pending, added>>
    /\ UNCHANGED procvars

\* one entry of the snapshot goes through _kv_get_route_parts, whatever has
\* been done to the keyspace since the listing
GetRouteParts ==
    /\ \E kv_entry \in listed :
         /\ listed' = listed \ {kv_entry}
         /\ ret' = [op |-> "get_route_parts", kv_entry |-> kv_entry,
                    result |-> kv_get_route_parts(store, kv_entry)]
    /\ UNCHANGED <<store, pending, added>>
    /\ UNCHANGED procvars

RECURSIVE PutsOf(_, _)
\* [transactions.put(k, v) for k, v in data.items()], over the keys ks of data
PutsOf(data, ks) ==
    IF ks = {} THEN <<>>
    ELSE LET k == CHOOSE x \in ks : TRUE
         IN <<Put(k, data[k])>> \o PutsOf(data, ks \ {k})

\* {"traefik/a": "1"}, {"traefik/b": "2"} and {"traefik/a": "2", "traefik/b": "2"}:
\* three dynamic configurations as
\* flatten_dict_for_kv(dynamic_config, prefix=kv_traefik_prefix) returns them
DynamicConfigs ==
    { (kv_traefik_prefix \o <<47, 97>>) :> <<49>>,
      (kv_traefik_prefix \o <<47, 98>>) :> <<50>>,
      (kv_traefik_prefix \o <<47, 97>>) :> <<50>> @@ (kv_traefik_prefix \o <<47, 98>>) :> <<50>> }

\* as persist_dynamic_config, the keys under the traefik prefix that the
\* configuration does not hold being deleted in the same transaction
persist_dynamic_config_replaces(s, succeeded, data) ==
    LET r == etcd_transaction(s, succeeded, PutsOf(data, DOMAIN data))
        kept == { k \in DOMAIN r.store :
                    ~StartsWith(k, kv_traefik_prefix) \/ k \in DOMAIN data }
    IN IF succeeded THEN [r EXCEPT !.store = [k \in kept |-> r.store[k]]] ELSE r

\* persist_dynamic_config, data being the flattened dynamic_config
persist_dynamic_config(s, succeeded, data) ==
    etcd_transaction(s, succeeded, PutsOf(data, DOMAIN data))

PersistDynamicConfig(data) ==
    /\ \E succeeded \in BOOLEAN :
         LET r == persist_dynamic_config(store, succeeded, data)
         IN /\ store' = r.store
            /\ ret' = [op |-> "persist_dynamic_config", data |-> data,
                       status |-> r.status, response |-> r.response, txns |-> r.txns]
    /\ UNCHANGED <<pending, added>>
    /\ UNCHANGED <<listed, procvars>>

Next ==
    \/ \E routespec \in RouteSpecs, target \in Targets, data \in Datas :
          AddRoute(routespec, target, data)
    \/ \E routespec \in RouteSpecs : DeleteRouteGet(routespec)
    \/ \E f \in DeleteFrames : DeleteRouteTxn(f)
    \/ \E routespec \in RouteSpecs : GetTarget(routespec)
    \/ \E target \in Targets : GetData(target)

\* The route operations of any number of callers on one etcd, listing apart.
Spec == Init /\ [][Next]_vars

\* "d1"
OneData == <<100, 49>>

NextList ==
    \/ \E routespec \in RouteSpecs, target \in Targets :
          AddRoute(routespec, target, OneData)
    \/ \E routespec \in RouteSpecs : DeleteRouteGet(routespec)
    \/ \E f \in DeleteFrames : DeleteRouteTxn(f)
    \/ \E routespec \in RouteSpecs : GetTarget(routespec)
    \/ \E target \in Targets : GetData(target)
    \/ ListRoutes
    \/ GetRouteParts

\* The route operations with one data blob, the listing and the decoding of
\* its entries among them.
SpecList == Init /\ [][NextList]_vars

NextConfig ==
    \/ \E routespec \in RouteSpecs, target \in Targets :
          AddRoute(routespec, target, OneData)
    \/ \E routespec \in RouteSpecs : DeleteRouteGet(routespec)
    \/ \E f \in DeleteFrames : DeleteRouteTxn(f)
    \/ \E data \in DynamicConfigs : PersistDynamicConfig(data)

\* The three operations that submit a transaction, persist_dynamic_config
\* among them, with one data blob.
SpecConfig == Init /\ [][NextConfig]_vars

(************************ _kv_get_route_parts alone ***********************)

\* "a", "_", "2", "F", "r": letters and digits that are and are not hex, and
\* the escape character.  A single escape of this alphabet that is a byte
\* above 127 is no utf-8, whatever follows it in a tail this short.
TailAlphabet == {97, 95, 50, 70, 114}

RECURSIVE SeqsUpTo(_, _)
\* the sequences over A of length at most n
SeqsUpTo(A, n) ==
    IF n = 0 THEN {<<>>}
    ELSE LET shorter == SeqsUpTo(A, n - 1)
         IN shorter \cup {Append(s, a) : s \in shorter, a \in A}

\* what a raw key may begin with: nothing, the routes prefix, "x" and then
\* the routes prefix, the targets prefix
KeyHeads ==
    { <<>>, route_prefix, <<120>> \o route_prefix, target_prefix \o kv_separator }

\* the entries handed to _kv_get_route_parts: any key, the value "h:1"
RawEntries ==
    { <<(<<104, 58, 49>>), [key |-> h \o tl]>> :
         h \in KeyHeads, tl \in SeqsUpTo(TailAlphabet, MaxTail) }

InitDecode ==
    /\ store = <<>>
    /\ pending = [f \in DeleteFrames |-> 0]
    /\ added = <<>>
    /\ ret = [op |-> "none"]
    /\ \E kv_entry \in RawEntries : listed = {kv_entry}
    /\ ProcInit

NextDecode == GetRouteParts

\* _kv_get_route_parts on one raw entry, whatever its key.
SpecDecode == InitDecode /\ [][NextDecode]_vars

(************************ one proxy and its executor **********************)

\* Most calls one proxy submits to its executor in a behaviour of SpecExecutor.
MaxCalls == 4

\* ThreadPoolExecutor(1): the number of worker threads of self.executor
max_workers == 1

\* the routespec, target and flattened configuration of the operations of
\* SpecExecutor: "/a/", "h:1", {"traefik/a": "2", "traefik/b": "2"}
ExecRoute == <<47, 97, 47>>
ExecTarget == <<104, 58, 49>>
ExecConfig == CHOOSE data \in DynamicConfigs : Cardinality(DOMAIN data) = 2

\* run_on_executor: self.executor.submit(fn, ...) puts the call at the tail of
\* the work queue; the coroutine that awaits it is suspended.  op is the
\* operation that made the call and arg the target it carries, if any.
Submit(fn, op, arg) ==
    /\ dispatched < MaxCalls
    /\ queue' = Append(queue, [ticket |-> dispatched + 1, fn |-> fn, op |-> op, arg |-> arg])
    /\ dispatched' = dispatched + 1
    /\ UNCHANGED <<running, started, stopped, closes, used_closed>>

\* _kv_atomic_add_route_parts up to its await: the transaction is submitted
ExecAddRoute ==
    /\ ~stopped
    /\ Submit("transaction", "add_route", ExecTarget)
    /\ UNCHANGED <<store, pending, ret, added, listed>>

\* persist_dynamic_config up to its await
ExecPersistDynamicConfig ==
    /\ ~stopped
    /\ Submit("transaction", "persist_dynamic_config", None)
    /\ UNCHANGED <<store, pending, ret, added, listed>>

\* _kv_get_target, _kv_get_data and _kv_atomic_delete_route_parts up to their
\* await of _etcd_get
ExecGet(op) ==
    /\ ~stopped
    /\ Submit("get", op, IF op = "get_data" THEN ExecTarget ELSE None)
    /\ UNCHANGED <<store, pending, ret, added, listed>>

\* _kv_get_jupyterhub_prefixed_entries up to its await
ExecListRoutes ==
    /\ ~stopped
    /\ Submit("get_prefix", "list", None)
    /\ UNCHANGED <<store, pending, ret, added, listed>>

\* _kv_atomic_delete_route_parts resumed with the target it read: the
\* transaction of five deletes is submitted
ExecDeleteRouteTxn(f) ==
    /\ pending[f] > 0
    /\ f.routespec = ExecRoute
    /\ Submit("transaction", "delete_route", f.value)
    /\ pending' = [pending EXCEPT ![f] = @ - 1]
    /\ UNCHANGED <<store, ret, added, listed>>

\* as WorkerStart, the pool starting a thread for every call submitted
WorkerStartNoLimit ==
    /\ queue # <<>>
    /\ running' = running \cup {[call |-> Head(queue), closed |-> closes > 0]}
    /\ queue' = Tail(queue)
    /\ started' = Append(started, Head(queue).ticket)
    /\ used_closed' = (used_closed \/ closes > 0)
    /\ UNCHANGED <<store, pending, ret, added, listed, dispatched, stopped, closes>>

\* an idle worker thread takes the call at the head of the work queue and
\* enters kv_client.transaction, .get or .get_prefix
WorkerStart ==
    /\ queue # <<>>
    /\ Cardinality(running) < max_workers
    /\ running' = running \cup {[call |-> Head(queue), closed |-> closes > 0]}
    /\ queue' = Tail(queue)
    /\ started' = Append(started, Head(queue).ticket)
    /\ used_closed' = (used_closed \/ closes > 0)
    /\ UNCHANGED <<store, pending, ret, added, listed, dispatched, stopped, closes>>

\* the call raises in the worker: the coroutine awaiting it ends with the error
CallRaises(c) ==
    /\ ret' = [op |-> c.op, raised |-> TRUE]
    /\ UNCHANGED <<store, pending, added, listed>>

\* _etcd_transaction returns (status, response) to the operation awaiting it
TransactionReturns(c) ==
    \E succeeded \in BOOLEAN :
        LET r == IF c.op = "add_route"
                 THEN kv_atomic_add_route_parts(store, succeeded, ExecRoute, c.arg, OneData)
                 ELSE IF c.op = "delete_route"
                 THEN etcd_transaction(store, succeeded,
                                       delete_route_success(ExecRoute, c.arg))
                 ELSE persist_dynamic_config(store, succeeded, ExecConfig)
        IN /\ store' = r.store
           /\ ret' = [op |-> c.op, status |-> r.status, response |-> r.response,
                      txns |-> r.txns]
           /\ added' = IF ~r.status THEN added
                       ELSE IF c.op = "add_route"
                       THEN [x \in DOMAIN added \cup {ExecRoute} |->
                                IF x = ExecRoute THEN c.arg ELSE added[x]]
                       ELSE IF c.op = "delete_route"
                       THEN [x \in DOMAIN added \ {ExecRoute} |-> added[x]]
                       ELSE added
           /\ UNCHANGED <<pending, listed>>

\* _etcd_get returns the value to the operation awaiting it; deleteRoute goes
\* on to its transaction when the value is not None
GetReturns(c) ==
    LET key == IF c.op = "get_data" THEN jupyterhub_target[c.arg]
               ELSE jupyterhub_routespec[ExecRoute]
        value == etcd_get(store, key)
    IN /\ IF c.op = "delete_route"
          THEN IF value = None
               THEN /\ ret' = [op |-> "delete_route", status |-> TRUE,
                               response |-> None, txns |-> 0]
                    /\ UNCHANGED pending
               ELSE /\ pending' = [pending EXCEPT
                                     ![[routespec |-> ExecRoute, value |-> value]] = @ + 1]
                    /\ UNCHANGED ret
          ELSE /\ ret' = [op |-> c.op, result |-> value]
               /\ UNCHANGED pending
       /\ UNCHANGED <<store, added, listed>>

\* _etcd_get_prefix returns the entries under the routes prefix
GetPrefixReturns(c) ==
    /\ ret' = [op |-> "list", routes |-> kv_get_jupyterhub_prefixed_entries(store)]
    /\ listed' = kv_get_jupyterhub_prefixed_entries(store)
    /\ UNCHANGED <<store, pending, added>>

\* the call a worker is executing ends.  On a client closed before the call
\* was started it raises; on a client closed while the call was under way it
\* raises or returns; on an open client it returns.
WorkerFinish(w) ==
    /\ w \in running
    /\ running' = running \ {w}
    /\ \/ /\ closes > 0
          /\ CallRaises(w.call)
       \/ /\ ~w.closed
          /\ IF w.call.fn = "transaction" THEN TransactionReturns(w.call)
             ELSE IF w.call.fn = "get" THEN GetReturns(w.call)
             ELSE GetPrefixReturns(w.call)
    /\ UNCHANGED <<queue, dispatched, started, stopped, closes, used_closed>>

\* _clean_resources: kv_client.close(), once, on the thread of the caller; the
\* executor is neither drained nor shut down
CleanResources ==
    /\ closes' = closes + 1
    /\ UNCHANGED <<store, pending, ret, added, listed, queue, running, dispatched,
                   started, used_closed>>

\* the teardown of the proxy: stop() runs _clean_resources, once in the life
\* of a proxy, after which the hub starts no operation on it
Stop ==
    /\ ~stopped
    /\ stopped' = TRUE
    /\ CleanResources

NextExecutor ==
    \/ ExecAddRoute
    \/ ExecPersistDynamicConfig
    \/ \E op \in {"get_target", "get_data", "delete_route"} : ExecGet(op)
    \/ ExecListRoutes
    \/ \E f \in DeleteFrames : ExecDeleteRouteTxn(f)
    \/ WorkerStart
    \/ \E w \in running : WorkerFinish(w)
    \/ Stop

\* The operations of one proxy, each backend call going through the proxy's
\* executor, from construction to teardown.
SpecExecutor == Init /\ [][NextExecutor]_vars

(********************************* claims *********************************)

\* the routes of the keyspace: the routespecs whose key is present
Routed == { r \in RouteSpecs : jupyterhub_routespec[r] \in DOMAIN store }

\* C1: once addRoute(spec, target, data, keys, rule) has returned success and
\* nothing has touched the store since, getTarget(spec) is target and
\* getData(targetKey(target)) is data.
AddThenGet ==
    (ret.op = "add_route" /\ ret.status) =>
        /\ kv_get_target(store, routeKey(ret.routespec)) = ret.target
        /\ kv_get_data(store, targetKey(ret.target)) = ret.data

\* a successful addRoute on a routespec that a deleteRoute in flight has read,
\* with another routespec on another target
AddThenGetWitness ==
    /\ ret.op = "add_route" /\ ret.status
    /\ \E f \in DeleteFrames :
          pending[f] > 0 /\ f.routespec = ret.routespec /\ f.value # ret.target
    /\ \E r \in DOMAIN added : r # ret.routespec /\ added[r] # ret.target

\* C2: once deleteRoute(spec, keys) has returned success and nothing has
\* touched the store since, getTarget(spec) is None.
DeleteThenGet ==
    (ret.op = "delete_route" /\ ret.status) =>
        kv_get_target(store, routeKey(ret.routespec)) = None

\* a deleteRoute whose transaction succeeded, another route being left
DeleteThenGetWitness ==
    /\ ret.op = "delete_route" /\ ret.status /\ ret.txns = 1
    /\ Routed # {}

\* C3: deleteRoute on a routespec whose routes/ key is absent returns
\* (True, None), submits no transaction and leaves every key of the store as
\* it is, the descriptor keys of route_keys among them.
DeleteAbsentIsNoop ==
    [][\A routespec \in RouteSpecs :
          (etcd_get(store, routeKey(routespec)) = None /\ DeleteRouteGet(routespec)) =>
              /\ ret'.op = "delete_route" /\ ret'.routespec = routespec
              /\ ret'.status = TRUE /\ ret'.response = None
              /\ ret'.txns = 0
              /\ store' = store
              /\ pending' = pending]_vars

\* deleteRoute has returned (True, None) without a transaction while the
\* other routespec has its keys in the store
DeleteAbsentWitness ==
    /\ ret.op = "delete_route" /\ ret.txns = 0 /\ ret.response = None
    /\ ret.routespec \notin Routed
    /\ Routed # {}

\* C4: after any sequence of successful addRoute and deleteRoute calls,
\* listRoutes() and then decodeRouteEntry on each entry give exactly the
\* routespecs added and not deleted since, each with the target of its last
\* addRoute: the listing holds one entry per such routespec, its key and its
\* target, and decoding an entry of a listing gives back the routespec and
\* the target of the entry.
ListGivesAddedRoutes ==
    /\ ret.op = "list" =>
          ret.routes = { <<added[r], [key |-> jupyterhub_routespec[r]]>> : r \in DOMAIN added }
    /\ ret.op = "get_route_parts" =>
          /\ ~ret.result.raised
          /\ ret.result.routespec \in RouteSpecs
          /\ ret.kv_entry = <<ret.result.target,
                               [key |-> jupyterhub_routespec[ret.result.routespec]]>>

\* an entry of a listing of two routes has been decoded, the other entry
\* being still to decode
ListGivesAddedRoutesWitness ==
    /\ ret.op = "get_route_parts" /\ ~ret.result.raised
    /\ listed # {}

\* C5: every routes/<routespec> key that exists has an existing
\* targets/<escape(target)> key for the target it holds.
RouteHasTargetKey ==
    \A r \in Routed : targetKey(store[jupyterhub_routespec[r]]) \in DOMAIN store

\* C6: deleteRoute on one of two routespecs that share a target does not
\* remove the target's data key while the other routespec still maps to the
\* target: getData of the target returns the same data afterwards.
SharedTargetDataSurvives ==
    [][\A f \in DeleteFrames :
          DeleteRouteTxn(f) =>
             \A r \in Routed \ {f.routespec} :
                LET t == store[jupyterhub_routespec[r]]
                IN etcd_get(store', jupyterhub_routespec[r]) = t =>
                      kv_get_data(store', targetKey(t)) = kv_get_data(store, targetKey(t))]_vars

\* C7: no addRoute or deleteRoute takes effect between deleteRoute's read of
\* the routespec's target and its transaction: the transaction is applied
\* when the routespec holds the target that was read.
DeleteIsAtomic ==
    [][\A f \in DeleteFrames :
          DeleteRouteTxn(f) =>
             etcd_get(store, jupyterhub_routespec[f.routespec]) = f.value]_vars

\* C8: when the transaction of addRoute, deleteRoute or persistDynamicConfig
\* reports success=false, the operation returns that flag and the raw
\* response after that one transaction, and no key of the store has changed.
FailedTransactionChangesNothing ==
    [][(/\ ret' # ret
        /\ ret'.op \in {"add_route", "delete_route", "persist_dynamic_config"}
        /\ ~ret'.status) =>
            /\ store' = store
            /\ ret'.response = TxnResponse(FALSE)
            /\ ret'.txns = 1]_vars

\* a deleteRoute whose transaction failed, the route and a key of the dynamic
\* configuration being in the store
FailedTransactionWitness ==
    /\ ret.op = "delete_route" /\ ~ret.status
    /\ ret.routespec \in Routed
    /\ \E data \in DynamicConfigs : DOMAIN data \subseteq DOMAIN store

\* C9: addRoute called a second time with the arguments of the addRoute that
\* has just succeeded leaves every key of the store with the value it had.
AddTwiceIsAddOnce ==
    [][\A routespec \in RouteSpecs, target \in Targets, data \in Datas :
          (SameAdd(routespec, target, data) /\ AddRoute(routespec, target, data)) =>
              store' = store]_vars

\* the second of two identical addRoute calls has succeeded
AddTwiceWitness ==
    ret.op = "add_route" /\ ret.repeat /\ ret.status

\* C10: decodeRouteEntry fails, and returns no (routespec, target, data), for
\* every entry whose key does not start with "<jupyterhubPrefix>/routes/".
ForeignKeyIsRejected ==
    ret.op = "get_route_parts" =>
        (~StartsWith(ret.kv_entry[2].key, route_prefix) => ret.result.raised)

\* C11: persistDynamicConfig sends one transaction; when it succeeds every
\* flattened key of the configuration holds the configuration's value and
\* every other key of the store, the keys of an earlier configuration among
\* them, is still there with the value it had; no key is deleted.
PersistOnlyPuts ==
    [][\A data \in DynamicConfigs :
          PersistDynamicConfig(data) =>
              /\ ret'.txns = 1
              /\ ret'.status =>
                    store' = [k \in DOMAIN store \cup DOMAIN data |->
                                 IF k \in DOMAIN data THEN data[k] ELSE store[k]]
              /\ DOMAIN store \subseteq DOMAIN store'
              /\ \A k \in DOMAIN store \ DOMAIN data : store'[k] = store[k]]_vars

\* a configuration has been persisted with success while the store holds a
\* route and a key that only another configuration holds
PersistOnlyPutsWitness ==
    /\ ret.op = "persist_dynamic_config" /\ ret.status
    /\ Routed # {}
    /\ \E other \in DynamicConfigs :
          \E k \in DOMAIN other \ DOMAIN ret.data : k \in DOMAIN store

\* C15: when addRoute calls of several processes for one routespec with
\* different targets succeed, the routespec key and the three descriptor
\* keys all hold what the add committed last wrote: the target under the
\* routespec key and the service url, the alias and the rule of the
\* routespec; no state mixes two calls.
LastAddWins ==
    \A r \in DOMAIN added :
        /\ etcd_get(store, jupyterhub_routespec[r]) = added[r]
        /\ etcd_get(store, route_keys[r].service_url_path) = added[r]
        /\ etcd_get(store, route_keys[r].router_service_path) = route_keys[r].service_alias
        /\ etcd_get(store, route_keys[r].router_rule_path) = rule[r]

\* an addRoute has succeeded on a routespec for which a deleteRoute in flight
\* read another target, the one an earlier addRoute committed
LastAddWinsWitness ==
    /\ ret.op = "add_route" /\ ret.status /\ ~ret.repeat
    /\ ret.routespec \in DOMAIN added
    /\ \E f \in DeleteFrames :
          pending[f] > 0 /\ f.routespec = ret.routespec /\ f.value # ret.target

\* C16: every targets/<escape(t)> key that exists is the target held by some
\* routes/ key that exists: no data key is orphaned, also when addRoute
\* overwrites a routespec with another target.
NoOrphanTarget ==
    \A t \in Targets :
        jupyterhub_target[t] \in DOMAIN store =>
            \E r \in Routed : store[jupyterhub_routespec[r]] = t

\* the four keys of a route: the routespec key and the three descriptor keys
RouteKeySet(r) ==
    { jupyterhub_routespec[r], route_keys[r].service_url_path,
      route_keys[r].router_service_path, route_keys[r].router_rule_path }

\* C17: whatever the interleaving of addRoute and deleteRoute transactions,
\* the routespec key and the three descriptor keys of a routespec are all
\* present or all absent, and when present the service url holds the target
\* the routespec key holds.
RouteKeysTogether ==
    \A r \in RouteSpecs :
        /\ RouteKeySet(r) \subseteq DOMAIN store \/ RouteKeySet(r) \cap DOMAIN store = {}
        /\ r \in Routed =>
              etcd_get(store, route_keys[r].service_url_path) = store[jupyterhub_routespec[r]]

\* a deleteRoute transaction has removed one route while the other route is
\* there and a deleteRoute is in flight
RouteKeysTogetherWitness ==
    /\ ret.op = "delete_route" /\ ret.status /\ ret.txns = 1
    /\ Routed # {} /\ Routed # RouteSpecs
    /\ InFlight > 0

\* C18: addRoute and deleteRoute on a routespec leave the routespec key and
\* the three descriptor keys of every other routespec as they were, so that
\* getTarget of the other routespec returns what it returned before; and
\* getTarget, getData and listRoutes change no key.  A step that changes the
\* store is the transaction of an addRoute or deleteRoute, whose routespec
\* the returned record names.
OtherRoutesUntouched ==
    [][store' # store =>
          /\ ret'.op \in {"add_route", "delete_route"}
          /\ \A b \in RouteSpecs \ {ret'.routespec} :
                /\ \A k \in RouteKeySet(b) : etcd_get(store', k) = etcd_get(store, k)
                /\ kv_get_target(store', jupyterhub_routespec[b])
                      = kv_get_target(store, jupyterhub_routespec[b])]_vars

\* a transaction of addRoute or deleteRoute has succeeded on one routespec
\* while the other routespec has its keys in the store
OtherRoutesUntouchedWitness ==
    /\ ret.op \in {"add_route", "delete_route"} /\ ret.status /\ ret.txns = 1
    /\ Routed \ {ret.routespec} # {}

\* C13: over the life of a proxy the client handle is closed exactly once
\* during teardown, never twice and never zero times once torn down, and no
\* get, prefix read or transaction is executed on the handle after its close.
HandleClosedOnceThenUnused ==
    /\ closes <= 1
    /\ stopped => closes = 1
    /\ ~used_closed

\* C14: within one process at most one backend call (get, prefix get or
\* transaction) is executing at any time, however many operations are
\* awaited at once, and the calls are started in the order they were
\* submitted: the i-th call started is the i-th call submitted.
OneBackendCallAtATime ==
    /\ Cardinality(running) <= 1
    /\ \A i \in 1..Len(started) : started[i] = i

\* a call is executing while two calls, one of them of another kind, wait
\* in the queue, a call having completed before
OneBackendCallAtATimeWitness ==
    /\ Cardinality(running) = 1
    /\ Len(queue) >= 2
    /\ Len(started) >= 2
    /\ \E w \in running : \E i \in 1..Len(queue) : queue[i].fn # w.call.fn

====
